---- MODULE Spec2Model ----
(***************************************************************************)
(* Support-level backtest engine of StockPriceStats (hypothesis h001).     *)
(*                                                                         *)
(* Modelled code:                                                          *)
(*   OLD/multi_period_low_analysis.py        the full run                  *)
(*   multi_period_low_analysis_incremental.py the incremental run          *)
(*   streamlit_app_lite.py  calculate_rolling_low (calendar-day minimum)   *)
(*                                                                         *)
(* Dates are integers (one unit = one calendar day), a timedelta is an     *)
(* integer number of days.  A price series is a sequence of rows           *)
(* [Date, Low] sorted by strictly increasing Date (load_data sorts by      *)
(* name and date, dates are unique within a symbol).  A DataFrame of       *)
(* results is a sequence of trial records, in row order.  Python's None    *)
(* is the empty sequence <<>>, a present value v is <<v>>; break_pct, a    *)
(* float, is kept exact as the pair <<numerator, denominator>>.            *)
(*                                                                         *)
(* The source configuration (30..365 day windows) is kept in LOW_PERIODS,  *)
(* WAIT_TIMES, EXPIRY_PERIODS and MAX_WAIT_BY_PERIOD.  State exploration   *)
(* runs the same code on a configuration with the same shape and shorter   *)
(* spans (ModelPeriods, ModelWaitTimes, ModelExpiryPeriods): every         *)
(* operator takes the window, the wait list and the expiry list as         *)
(* arguments, as the worker functions take them.                           *)
(***************************************************************************)
EXTENDS Integers, Sequences, FiniteSets, TLC

VARIABLES
    prices,            \* price_data_filtered.parquet: Stock -> sorted rows
    files,             \* <prefix>_detailed_results.parquet, one per period
    pc,                \* position of the running script
    period_i,          \* index in the period loop of the running script
    pending,           \* stocks whose worker future has not completed yet
    all_results,       \* all_results list of analyze_*period* (row order)
    full_results,      \* all_results dict of the full run's main()
    min_analyze_date,  \* cutoff of the running incremental run (<<>> = none)
    runs,              \* number of runs finished
    hist               \* what happened last, <<event, D>>:
                       \*  "full": a full run over the price file, whose last day was D
                       \*  "new":  then only observations dated after D arrived
                       \*  "full_new_inc": then one incremental run finished
                       \*  "inc":  an incremental run finished, no price since
                       \*  "none": anything else

vars == <<prices, files, pc, period_i, pending, all_results, full_results,
          min_analyze_date, runs, hist>>

(***************************************************************************)
(* Bounds of the exploration.                                              *)
(***************************************************************************)
MaxDate == 3        \* last calendar day of the system specification
BaseLow == 1        \* the low of every observation of the system specification
MaxRuns == 3        \* runs (full or incremental) in one behaviour
EvalMaxDate == 5    \* last calendar day of the evaluator specification
MaxLow == 2         \* lows of the evaluator specification range over 1..MaxLow
ConfigExtra == 2    \* observations after the first window of the configuration specification
ScenarioSpread == 7 \* days around the dip and the cutoff of the scenario specification
UpdateMaxDate == 4  \* last calendar day of the update specification
WriteMaxDate == 3   \* last calendar day of the write specification

Stocks == {"A", "B"}
Lows == 1..MaxLow

(***************************************************************************)
(* Configuration of the source.                                            *)
(***************************************************************************)
LOW_PERIODS == <<30, 90, 180, 270, 365>>
WAIT_TIMES == <<0, 30, 60, 90, 120, 180>>
EXPIRY_PERIODS == <<7, 14, 21, 30, 45>>
MAX_WAIT_BY_PERIOD == [p \in {30, 90, 180, 270, 365} |-> p]

(***************************************************************************)
(* Configuration explored by the model: two windows, the wait list is cut  *)
(* by the window length as in the source (the short window loses the long  *)
(* wait), two expiries.                                                    *)
(***************************************************************************)
ModelPeriods == <<1, 2>>
ModelWaitTimes == <<0, 1, 2>>
ModelExpiryPeriods == <<1, 2>>
ModelMaxWait == [p \in {1, 2} |-> p]

None == <<>>
Some(v) == <<v>>

Range(s) == {s[i] : i \in 1..Len(s)}

Min(S) == CHOOSE x \in S : \A y \in S : x <= y
Max(S) == CHOOSE x \in S : \A y \in S : x >= y

\* [w for w in WAIT_TIMES if w <= MAX_WAIT_BY_PERIOD[period_days]]
valid_wait_times_uncapped(wait_times, max_wait) == wait_times
valid_wait_times(wait_times, max_wait) ==
    SelectSeq(wait_times, LAMBDA w : w <= max_wait)

ModelValidWaits(period_days) ==
    valid_wait_times(ModelWaitTimes, ModelMaxWait[period_days])

\* stock_data[(Date > lo) & (Date <= hi)]
DateSlice(stock_data, lo, hi) ==
    SelectSeq(stock_data, LAMBDA r : r.Date > lo /\ r.Date <= hi)

\* stock_data.iloc[idx-period_days+1 : idx+1]['Low'].min()  (idx is 1-based)
rolling_low_to_end(stock_data, idx, period_days) ==
    Min({stock_data[i].Low : i \in (idx - period_days + 1)..Len(stock_data)})
rolling_low(stock_data, idx, period_days) ==
    Min({stock_data[i].Low : i \in (idx - period_days + 1)..idx})

\* option_period_data[option_period_data['Low'] < rolling_low]
break_data_well_below(option_period_data, rl) ==
    SelectSeq(option_period_data, LAMBDA r : r.Low < rl - 1)
break_data(option_period_data, rl) ==
    SelectSeq(option_period_data, LAMBDA r : r.Low < rl)

\* ((low - rolling_low) / rolling_low) * 100, exact
break_pct_of(low, rl) == <<(low - rl) * 100, rl>>

\* the concatenation of the sequences of ss, by halves
RECURSIVE Flatten(_)
Flatten(ss) ==
    IF ss = <<>> THEN <<>>
    ELSE IF Len(ss) = 1 THEN ss[1]
    ELSE LET h == Len(ss) \div 2
         IN  Flatten(SubSeq(ss, 1, h)) \o Flatten(SubSeq(ss, h + 1, Len(ss)))

\* stock_data.sort_values('Date').reset_index(drop=True): rows already in
\* date order stay as they are, otherwise row i is the one with i - 1 earlier
\* rows
sort_values(stock_data) ==
    IF \A i \in 1..(Len(stock_data) - 1) : stock_data[i].Date <= stock_data[i + 1].Date
    THEN stock_data
    ELSE [i \in 1..Len(stock_data) |->
            CHOOSE r \in Range(stock_data) :
                Cardinality({q \in Range(stock_data) : q.Date < r.Date}) = i - 1]

(***************************************************************************)
(* Trade grid evaluator: the body of the worker functions.                 *)
(***************************************************************************)

\* "if len(wait_period_data) > 0: ... if min_during_wait < rolling_low: continue"
wait_broken_never(wait_period_data, rl) == FALSE
wait_broken(wait_period_data, rl) ==
    /\ Len(wait_period_data) > 0
    /\ Min({wait_period_data[i].Low : i \in 1..Len(wait_period_data)}) < rl

\* "if min_during_option >= rolling_low" : support held
support_held_strict(min_during_option, rl) == min_during_option > rl
support_held(min_during_option, rl) == min_during_option >= rl

\* first_break = break_data.iloc[0]
first_break_last(break_data_rows) == break_data_rows[Len(break_data_rows)]
first_break(break_data_rows) == break_data_rows[1]

\* success, min_during_option, days_to_break, break_pct of one trial
outcome_empty_is_failure(option_period_data, rl, test_date) ==
    IF Len(option_period_data) = 0
    THEN [success |-> "False", min_during_option |-> None,
          days_to_break |-> None, break_pct |-> None]
    ELSE LET mdo == Min({option_period_data[i].Low :
                            i \in 1..Len(option_period_data)})
             bd == break_data(option_period_data, rl)
         IN  IF support_held(mdo, rl)
             THEN [success |-> "True", min_during_option |-> Some(mdo),
                   days_to_break |-> None, break_pct |-> None]
             ELSE [success |-> "False", min_during_option |-> Some(mdo),
                   days_to_break |-> Some(first_break(bd).Date - test_date),
                   break_pct |-> break_pct_of(first_break(bd).Low, rl)]
outcome(option_period_data, rl, test_date) ==
    IF Len(option_period_data) = 0
    THEN [success |-> "None", min_during_option |-> None,
          days_to_break |-> None, break_pct |-> None]
    ELSE LET mdo == Min({option_period_data[i].Low :
                            i \in 1..Len(option_period_data)})
             bd == break_data(option_period_data, rl)
         IN  IF support_held(mdo, rl)
             THEN [success |-> "True", min_during_option |-> Some(mdo),
                   days_to_break |-> None, break_pct |-> None]
             ELSE IF Len(bd) > 0
             THEN [success |-> "False", min_during_option |-> Some(mdo),
                   days_to_break |-> Some(first_break(bd).Date - test_date),
                   break_pct |-> break_pct_of(first_break(bd).Low, rl)]
             ELSE [success |-> "False", min_during_option |-> Some(mdo),
                   days_to_break |-> None,
                   break_pct |-> break_pct_of(mdo, rl)]

\* the dict appended to results for one (support date, wait, expiry)
trial(stock, stock_data, period_days, current_date, rl, wait_days, expiry_days) ==
    LET test_date == current_date + wait_days
        expiry_date == test_date + expiry_days
        o == outcome(DateSlice(stock_data, test_date, expiry_date), rl, test_date)
    IN  [stock |-> stock, period_days |-> period_days,
         support_date |-> current_date, support_level |-> rl,
         wait_days |-> wait_days, test_date |-> test_date,
         expiry_days |-> expiry_days, expiry_date |-> expiry_date,
         success |-> o.success, min_during_option |-> o.min_during_option,
         days_to_break |-> o.days_to_break, break_pct |-> o.break_pct]

\* one pass of "for wait_days in wait_times" for one support date
wait_trials_first_expiry(stock, stock_data, period_days, current_date, rl, wait_days, expiry_periods) ==
    IF wait_broken(DateSlice(stock_data, current_date, current_date + wait_days), rl)
    THEN <<>>
    ELSE <<trial(stock, stock_data, period_days, current_date, rl,
                 wait_days, expiry_periods[1])>>
wait_trials(stock, stock_data, period_days, current_date, rl, wait_days, expiry_periods) ==
    IF wait_broken(DateSlice(stock_data, current_date, current_date + wait_days), rl)
    THEN <<>>
    ELSE [k \in 1..Len(expiry_periods) |->
            trial(stock, stock_data, period_days, current_date, rl,
                  wait_days, expiry_periods[k])]

\* one pass of "for idx in range(period_days - 1, len(stock_data))"; idx 1-based
date_trials_skip_first_wait(stock, stock_data, period_days, idx, wait_times, expiry_periods) ==
    LET current_date == stock_data[idx].Date
        rl == rolling_low(stock_data, idx, period_days)
    IN  Flatten([w \in 1..(Len(wait_times) - 1) |->
            wait_trials(stock, stock_data, period_days, current_date, rl,
                        wait_times[w + 1], expiry_periods)])
date_trials(stock, stock_data, period_days, idx, wait_times, expiry_periods) ==
    LET current_date == stock_data[idx].Date
        rl == rolling_low(stock_data, idx, period_days)
    IN  Flatten([w \in 1..Len(wait_times) |->
            wait_trials(stock, stock_data, period_days, current_date, rl,
                        wait_times[w], expiry_periods)])

\* analyze_stock_for_period of the full run
analyze_stock_for_period(stock, stock_data, period_days, wait_times, expiry_periods) ==
    IF Len(stock_data) < period_days
    THEN <<>>
    ELSE Flatten([j \in 1..(Len(stock_data) - period_days + 1) |->
            date_trials(stock, stock_data, period_days, j + period_days - 1,
                        wait_times, expiry_periods)])

\* analyze_stock_for_period_incremental: support dates after the cutoff only
analyze_stock_for_period_incremental_from_cutoff(stock, stock_data_in, period_days, wait_times, expiry_periods, cutoff) ==
    IF Len(stock_data_in) < period_days
    THEN <<>>
    ELSE LET stock_data == sort_values(stock_data_in)
         IN  Flatten([j \in 1..(Len(stock_data) - period_days + 1) |->
                IF stock_data[j + period_days - 1].Date < cutoff
                THEN <<>>
                ELSE date_trials(stock, stock_data, period_days,
                                 j + period_days - 1, wait_times, expiry_periods)])
analyze_stock_for_period_incremental(stock, stock_data_in, period_days, wait_times, expiry_periods, cutoff) ==
    IF Len(stock_data_in) < period_days
    THEN <<>>
    ELSE LET stock_data == sort_values(stock_data_in)
         IN  Flatten([j \in 1..(Len(stock_data) - period_days + 1) |->
                IF stock_data[j + period_days - 1].Date <= cutoff
                THEN <<>>
                ELSE date_trials(stock, stock_data, period_days,
                                 j + period_days - 1, wait_times, expiry_periods)])

\* calculate_rolling_low: minimum low over the calendar days [date - period, date]
calculate_rolling_low(stock_data, current_date, period_days) ==
    LET window_data == SelectSeq(stock_data,
            LAMBDA r : r.Date >= current_date - period_days /\ r.Date <= current_date)
    IN  IF Len(window_data) > 0
        THEN Some(Min({window_data[i].Low : i \in 1..Len(window_data)}))
        ELSE None

(***************************************************************************)
(* Result files and the merge of append_results.                           *)
(***************************************************************************)

\* subset=['stock', 'support_date', 'wait_days', 'expiry_days']
KeyWithoutExpiry(t) == <<t.stock, t.support_date, t.wait_days>>
Key(t) == <<t.stock, t.support_date, t.wait_days, t.expiry_days>>

\* keep='last': a row stays when no later row has its key
RECURSIVE KeepLast(_)
KeepLast(rows) ==
    IF rows = <<>> THEN <<>>
    ELSE IF \E j \in 2..Len(rows) : Key(rows[j]) = Key(rows[1])
         THEN KeepLast(Tail(rows))
         ELSE <<rows[1]>> \o KeepLast(Tail(rows))

\* combined.drop_duplicates(subset=[...], keep='last')
drop_duplicates_keep_all(rows) == rows
drop_duplicates(rows) == KeepLast(rows)

\* pd.concat([existing, new_results], ignore_index=True)
concat_new_first(existing, new_results) == new_results \o existing
concat(existing, new_results) == existing \o new_results

\* pd.concat([existing, new_results]) then drop_duplicates
merge_overwrite(existing, new_results) == new_results
merge(existing, new_results) == drop_duplicates(concat(existing, new_results))

\* a result file: absent, or present with its rows; a present file that
\* pd.read_parquet cannot read has readable = FALSE
NoFile == [exists |-> FALSE, rows |-> <<>>, readable |-> TRUE]
File(rows) == [exists |-> TRUE, rows |-> rows, readable |-> TRUE]
Unreadable(file) == [file EXCEPT !.readable = FALSE]

\* pd.read_parquet(file_path) in append_results raises
append_raises(new_results, file) ==
    Len(new_results) > 0 /\ file.exists /\ ~file.readable

\* append_results: the file of one period after the call
append_results_replace(new_results, file) ==
    IF Len(new_results) = 0 THEN file ELSE File(new_results)
append_results(new_results, file) ==
    IF Len(new_results) = 0 THEN file
    ELSE IF ~file.exists THEN File(new_results)
    ELSE File(merge(file.rows, new_results))

\* get_last_analysis_date: None when the file is missing, cannot be read, or
\* has no support_date column (a DataFrame built from an empty list has no
\* columns)
get_last_analysis_date(file) ==
    IF ~file.exists THEN None
    ELSE IF ~file.readable THEN None
    ELSE IF Len(file.rows) = 0 THEN None
    ELSE Some(Max({file.rows[i].support_date : i \in 1..Len(file.rows)}))

PeriodSet == Range(ModelPeriods)

\* last_dates of main()
last_dates == [p \in PeriodSet |-> get_last_analysis_date(files[p])]

\* [d for d in last_dates.values() if d is not None]
KnownLastDates == {last_dates[p][1] : p \in {q \in PeriodSet : last_dates[q] # None}}

\* min_last_date = min([d for d in last_dates.values() if d is not None])
min_last_date == Min(KnownLastDates)

\* df['Stock'].unique()
StocksOf(df) == {s \in Stocks : Len(df[s]) > 0}

\* df[df['Date'] > start_date], as the set of (stock, row index)
df_new(df, start_date) ==
    UNION {{<<s, i>> : i \in {j \in 1..Len(df[s]) : df[s][j].Date > start_date}} :
           s \in Stocks}

LastDate(series) == IF Len(series) = 0 THEN 0 ELSE series[Len(series)].Date

\* last day of the price file
LastDay(df) == Max({0} \cup {LastDate(df[s]) : s \in Stocks})

\* hist after an incremental run that returned normally
AfterIncremental ==
    IF hist[1] = "new" THEN <<"full_new_inc", 0>>
    ELSE IF hist[1] = "interrupted" THEN <<"rerun", hist[2]>>
    ELSE <<"inc", 0>>

(***************************************************************************)
(* System specification: price updates, full runs, incremental runs.       *)
(***************************************************************************)
Init ==
    /\ prices = [s \in Stocks |-> <<>>]
    /\ files = [p \in PeriodSet |-> NoFile]
    /\ pc = "idle"
    /\ period_i = 0
    /\ pending = {}
    /\ all_results = <<>>
    /\ full_results = [p \in PeriodSet |-> <<>>]
    /\ min_analyze_date = None
    /\ runs = 0
    /\ hist = <<"none", 0>>

\* a new observation of one stock reaches the price file between two runs:
\* the next calendar day of a stock already listed, any day for a new stock
NewPrice(s, d) ==
    /\ pc = "idle"
    /\ d <= MaxDate
    /\ IF Len(prices[s]) = 0 THEN d >= 1 ELSE d = LastDate(prices[s]) + 1
    /\ prices' = [prices EXCEPT ![s] = Append(@, [Date |-> d, Low |-> BaseLow])]
    /\ hist' = IF hist[1] \in {"full", "new"} /\ d > hist[2]
               THEN <<"new", hist[2]>> ELSE <<"none", 0>>
    /\ UNCHANGED <<files, pc, period_i, pending, all_results, full_results,
                   min_analyze_date, runs>>

\* full run, main(): load_data and the first analyze_single_period
FullStart ==
    /\ pc = "idle"
    /\ runs < MaxRuns
    /\ pc' = "full_analyze"
    /\ period_i' = 1
    /\ pending' = StocksOf(prices)
    /\ all_results' = <<>>
    /\ full_results' = [p \in PeriodSet |-> <<>>]
    /\ UNCHANGED <<prices, files, min_analyze_date, runs, hist>>

\* stock_data = df[df['Stock'] == stock].copy().reset_index(drop=True)
stock_data_of_all(df, stock) == df["A"] \o df["B"]
stock_data_of(df, stock) == df[stock]

\* what the worker task of one stock returns in a full run over df
full_worker_result(df, stock, period_days) ==
    analyze_stock_for_period(stock, stock_data_of(df, stock), period_days,
        ModelValidWaits(period_days), ModelExpiryPeriods)

\* full run: one future completes, all_results.extend(future.result())
FullWorkerDone(s) ==
    /\ pc = "full_analyze"
    /\ s \in pending
    /\ pending' = pending \ {s}
    /\ all_results' = all_results \o
          full_worker_result(prices, s, ModelPeriods[period_i])
    /\ UNCHANGED <<prices, files, pc, period_i, full_results,
                   min_analyze_date, runs, hist>>

\* full run: analyze_single_period returns, main() goes to the next period
FullPeriodDone ==
    /\ pc = "full_analyze"
    /\ pending = {}
    /\ full_results' = [full_results EXCEPT ![ModelPeriods[period_i]] = all_results]
    /\ IF period_i < Len(ModelPeriods)
       THEN /\ period_i' = period_i + 1
            /\ pending' = StocksOf(prices)
            /\ pc' = pc
       ELSE /\ period_i' = 0
            /\ pending' = {}
            /\ pc' = "full_save"
    /\ all_results' = <<>>
    /\ UNCHANGED <<prices, files, min_analyze_date, runs, hist>>

\* full run: the "Save results" loop, to_parquet of every period
FullSave ==
    /\ pc = "full_save"
    /\ files' = [p \in PeriodSet |-> File(full_results[p])]
    /\ pc' = "idle"
    /\ runs' = runs + 1
    /\ hist' = <<"full", LastDay(prices)>>
    /\ full_results' = [p \in PeriodSet |-> <<>>]
    /\ UNCHANGED <<prices, period_i, pending, all_results, min_analyze_date>>

\* incremental run: min() of an empty list raises, the script ends
IncNoFiles ==
    /\ pc = "idle"
    /\ runs < MaxRuns
    /\ KnownLastDates = {}
    /\ runs' = runs + 1
    /\ hist' = <<"none", 0>>
    /\ UNCHANGED <<prices, files, pc, period_i, pending, all_results,
                   full_results, min_analyze_date>>

\* incremental run: "No new data to analyze!", return
IncNoNewData ==
    /\ pc = "idle"
    /\ runs < MaxRuns
    /\ KnownLastDates # {}
    /\ df_new(prices, min_last_date) = {}
    /\ runs' = runs + 1
    /\ hist' = AfterIncremental
    /\ UNCHANGED <<prices, files, pc, period_i, pending, all_results,
                   full_results, min_analyze_date>>

\* incremental run: cutoff found, new data present, first period submitted
IncStart ==
    /\ pc = "idle"
    /\ runs < MaxRuns
    /\ KnownLastDates # {}
    /\ df_new(prices, min_last_date) # {}
    /\ min_analyze_date' = Some(min_last_date)
    /\ pc' = "inc_analyze"
    /\ period_i' = 1
    /\ pending' = StocksOf(prices)
    /\ all_results' = <<>>
    /\ UNCHANGED <<prices, files, full_results, runs, hist>>

\* load_new_price_data(start_date): return df, df_new
load_new_price_data(df, start_date) ==
    [df_all |-> df,
     df_new |-> [s \in Stocks |-> SelectSeq(df[s], LAMBDA r : r.Date > start_date)]]

\* the frame main() hands to analyze_period_incremental
analyze_input_new_only(loaded) == loaded.df_new
analyze_input(loaded) == loaded.df_all

\* what the worker task of one stock returns in an incremental run over df
incremental_worker_result(df, stock, period_days, start_date) ==
    analyze_stock_for_period_incremental(stock,
        stock_data_of(analyze_input(load_new_price_data(df, start_date)), stock),
        period_days, ModelValidWaits(period_days), ModelExpiryPeriods, start_date)

\* incremental run: one future completes
IncWorkerDone_overwrite(s) ==
    /\ pc = "inc_analyze"
    /\ s \in pending
    /\ pending' = pending \ {s}
    /\ all_results' =
          incremental_worker_result(prices, s, ModelPeriods[period_i],
              min_analyze_date[1])
    /\ UNCHANGED <<prices, files, pc, period_i, full_results,
                   min_analyze_date, runs, hist>>
IncWorkerDone(s) ==
    /\ pc = "inc_analyze"
    /\ s \in pending
    /\ pending' = pending \ {s}
    /\ all_results' = all_results \o
          incremental_worker_result(prices, s, ModelPeriods[period_i],
              min_analyze_date[1])
    /\ UNCHANGED <<prices, files, pc, period_i, full_results,
                   min_analyze_date, runs, hist>>

\* incremental run: append_results(new_results, period_name)
IncAppend_early ==
    /\ pc = "inc_analyze"
    /\ ~append_raises(all_results, files[ModelPeriods[period_i]])
    /\ files' = [files EXCEPT ![ModelPeriods[period_i]] = append_results(all_results, @)]
    /\ pc' = "inc_appended"
    /\ UNCHANGED <<prices, period_i, pending, all_results, full_results,
                   min_analyze_date, runs, hist>>
IncAppend ==
    /\ pc = "inc_analyze"
    /\ pending = {}
    /\ ~append_raises(all_results, files[ModelPeriods[period_i]])
    /\ files' = [files EXCEPT ![ModelPeriods[period_i]] = append_results(all_results, @)]
    /\ pc' = "inc_appended"
    /\ UNCHANGED <<prices, period_i, pending, all_results, full_results,
                   min_analyze_date, runs, hist>>

\* incremental run: the period loop goes on, or main() returns
IncNextPeriod ==
    /\ pc = "inc_appended"
    /\ all_results' = <<>>
    /\ IF period_i < Len(ModelPeriods)
       THEN /\ period_i' = period_i + 1
            /\ pending' = StocksOf(prices)
            /\ pc' = "inc_analyze"
            /\ UNCHANGED <<min_analyze_date, runs, hist>>
       ELSE /\ period_i' = 0
            /\ pending' = {}
            /\ pc' = "idle"
            /\ min_analyze_date' = None
            /\ runs' = runs + 1
            /\ hist' = AfterIncremental
    /\ UNCHANGED <<prices, files, full_results>>

Next ==
    \/ \E s \in Stocks, d \in 1..MaxDate : NewPrice(s, d)
    \/ FullStart
    \/ \E s \in Stocks : FullWorkerDone(s)
    \/ FullPeriodDone
    \/ FullSave
    \/ IncNoFiles
    \/ IncNoNewData
    \/ IncStart
    \/ \E s \in Stocks : IncWorkerDone(s)
    \/ IncAppend
    \/ IncNextPeriod

Spec == Init /\ [][Next]_vars

(***************************************************************************)
(* Evaluator specification: one worker call on one price series drawn from *)
(* all series over the days 1..EvalMaxDate (gaps allowed) with lows in     *)
(* 1..MaxLow, then the merge of the returned result with itself.           *)
(***************************************************************************)
EvalStock == "A"

\* the sorted series with the dates DOMAIN f and the lows f
SeriesOf(f) ==
    [i \in 1..Cardinality(DOMAIN f) |->
        LET d == CHOOSE x \in DOMAIN f :
                    Cardinality({y \in DOMAIN f : y < x}) = i - 1
        IN  [Date |-> d, Low |-> f[d]]]

AllSeries ==
    {SeriesOf(f) : f \in UNION {[D -> 1..MaxLow] : D \in SUBSET (1..EvalMaxDate)}}

EvalInit ==
    /\ prices \in {[s \in Stocks |-> IF s = EvalStock THEN series ELSE <<>>] :
                      series \in AllSeries}
    /\ files = [p \in PeriodSet |-> NoFile]
    /\ pc = "eval_ready"
    /\ period_i = 0
    /\ pending = {}
    /\ all_results = <<>>
    /\ full_results = [p \in PeriodSet |-> <<>>]
    /\ min_analyze_date = None
    /\ runs = 0
    /\ hist = <<"none", 0>>

\* analyze_stock_for_period((stock, stock_data, period_days, name, wait_times))
EvalFull(i) ==
    /\ pc = "eval_ready"
    /\ period_i' = i
    /\ all_results' = analyze_stock_for_period(EvalStock, prices[EvalStock],
            ModelPeriods[i], ModelValidWaits(ModelPeriods[i]), ModelExpiryPeriods)
    /\ pc' = "eval_done"
    /\ UNCHANGED <<prices, files, pending, full_results, min_analyze_date, runs,
                   hist>>

\* analyze_stock_for_period_incremental((..., wait_times, min_analyze_date))
EvalIncremental(i, cutoff) ==
    /\ pc = "eval_ready"
    /\ period_i' = i
    /\ min_analyze_date' = Some(cutoff)
    /\ all_results' = incremental_worker_result(prices, EvalStock,
            ModelPeriods[i], cutoff)
    /\ pc' = "eval_done"
    /\ UNCHANGED <<prices, files, pending, full_results, runs, hist>>

\* the returned result merged with itself
EvalMerge ==
    /\ pc = "eval_done"
    /\ files' = [files EXCEPT ![ModelPeriods[period_i]] =
                    File(merge(all_results, all_results))]
    /\ pc' = "eval_merged"
    /\ UNCHANGED <<prices, period_i, pending, all_results, full_results,
                   min_analyze_date, runs, hist>>

\* round(x, 1) of x = 100 * s / n, in tenths of a percent; a tie (which needs
\* n to be a multiple of 16) goes to the even digit
round_1(s, n) ==
    LET q == (1000 * s) \div n
        r == (1000 * s) % n
    IN  IF 2 * r > n THEN q + 1
        ELSE IF 2 * r < n THEN q
        ELSE IF q % 2 = 0 THEN q ELSE q + 1

\* subset = detailed_results[(wait_days == w) & (expiry_days == e)
\*                           & success.notna()]
subset_with_undetermined(detailed_results, wait_days, expiry) ==
    SelectSeq(detailed_results,
        LAMBDA t : t.wait_days = wait_days /\ t.expiry_days = expiry)
subset(detailed_results, wait_days, expiry) ==
    SelectSeq(detailed_results,
        LAMBDA t : /\ t.wait_days = wait_days
                   /\ t.expiry_days = expiry
                   /\ t.success # "None")

\* create_success_matrix(detailed_results): one cell per wait_days and
\* expiry_days value present in detailed_results, the empty frame for no rows
create_success_matrix(detailed_results) ==
    LET waits    == {t.wait_days : t \in Range(detailed_results)}
        expiries == {t.expiry_days : t \in Range(detailed_results)}
    IN  [c \in waits \X expiries |->
            LET sub == subset(detailed_results, c[1], c[2])
                sum == Len(SelectSeq(sub, LAMBDA t : t.success = "True"))
            IN  IF Len(sub) > 0
                THEN [rate |-> Some(round_1(sum, Len(sub))), count |-> Len(sub)]
                ELSE [rate |-> None, count |-> 0]]

\* main() of the full script: all_results[period_days] =
\*     {'detailed': detailed_results, 'matrix': create_success_matrix(...)}
EvalMatrix ==
    /\ pc = "eval_done"
    /\ min_analyze_date = None
    /\ full_results' = [full_results EXCEPT ![ModelPeriods[period_i]] =
                           [detailed |-> all_results,
                            matrix   |-> create_success_matrix(all_results)]]
    /\ pc' = "eval_matrix"
    /\ UNCHANGED <<prices, files, period_i, pending, all_results,
                   min_analyze_date, runs, hist>>

EvalNext ==
    \/ \E i \in 1..Len(ModelPeriods) : EvalFull(i)
    \/ \E i \in 1..Len(ModelPeriods), cutoff \in 0..EvalMaxDate : EvalIncremental(i, cutoff)
    \/ EvalMerge
    \/ EvalMatrix

SpecEval == EvalInit /\ [][EvalNext]_vars

(***************************************************************************)
(* Update specification: the incremental run on the result files a full    *)
(* run left when the price file ended at an earlier day, with the faults   *)
(* of the environment: a result file that cannot be read, a worker that    *)
(* raises.  One run fits in the bound (runs starts at MaxRuns - 1).        *)
(***************************************************************************)
\* gap-free series of one stock over the days 1..UpdateMaxDate
UpdateSeries ==
    {<<>>} \cup
    {[i \in 1..(b - a + 1) |-> [Date |-> a + i - 1, Low |-> BaseLow]] :
        a \in 1..UpdateMaxDate, b \in 1..UpdateMaxDate}

\* the price file as it was when its last day was at most D
Prefix(df, D) == [s \in Stocks |-> SelectSeq(df[s], LAMBDA r : r.Date <= D)]

\* all_results of analyze_single_period, futures completing in the order A, B
FullRunRows(df, period_days) ==
    Flatten([k \in 1..2 |->
        LET s == <<"A", "B">>[k]
        IN  IF s \in StocksOf(df)
            THEN analyze_stock_for_period(s, df[s], period_days,
                     ModelValidWaits(period_days), ModelExpiryPeriods)
            ELSE <<>>])

UpdateInit ==
    /\ prices \in [Stocks -> UpdateSeries]
    /\ \E D \in 0..UpdateMaxDate :
          /\ files = [p \in PeriodSet |-> File(FullRunRows(Prefix(prices, D), p))]
          /\ hist = IF Prefix(prices, D) = prices
                    THEN <<"full", LastDay(prices)>>
                    ELSE <<"new", LastDay(Prefix(prices, D))>>
    /\ pc = "idle"
    /\ period_i = 0
    /\ pending = {}
    /\ all_results = <<>>
    /\ full_results = [p \in PeriodSet |-> <<>>]
    /\ min_analyze_date = None
    /\ runs = MaxRuns - 1

\* a result file becomes unreadable between two runs
Corrupt(p) ==
    /\ pc = "idle"
    /\ files[p].exists /\ files[p].readable
    /\ files' = [files EXCEPT ![p] = Unreadable(@)]
    /\ hist' = <<"none", 0>>
    /\ UNCHANGED <<prices, pc, period_i, pending, all_results, full_results,
                   min_analyze_date, runs>>

\* incremental run: pd.read_parquet(file_path) of append_results raises, the
\* exception leaves main()
IncAppendRaises ==
    /\ pc = "inc_analyze"
    /\ pending = {}
    /\ append_raises(all_results, files[ModelPeriods[period_i]])
    /\ pc' = "append_raised"
    /\ UNCHANGED <<prices, files, period_i, pending, all_results, full_results,
                   min_analyze_date, runs, hist>>

\* incremental run: the worker of one stock raises, future.result() raises it
\* again in analyze_period_incremental, the exception leaves main()
IncWorkerRaises(s) ==
    /\ pc = "inc_analyze"
    /\ s \in pending
    /\ pc' = "worker_raised"
    /\ pending' = {}
    /\ all_results' = <<>>
    /\ UNCHANGED <<prices, files, period_i, full_results, min_analyze_date,
                   runs, hist>>

\* incremental run: the process is stopped (signal, power loss) while the
\* period loop of main() is running; what was written stays written
Interrupt ==
    /\ pc \in {"inc_analyze", "inc_appended"}
    /\ pc' = "idle"
    /\ period_i' = 0
    /\ pending' = {}
    /\ all_results' = <<>>
    /\ min_analyze_date' = None
    /\ hist' = IF /\ hist[1] \in {"full", "new"}
                  /\ \/ pc = "inc_appended" /\ period_i < Len(ModelPeriods)
                     \/ pc = "inc_analyze" /\ period_i > 1
               THEN <<"interrupted", hist[2]>>
               ELSE <<"none", 0>>
    /\ UNCHANGED <<prices, files, full_results, runs>>

UpdateNext ==
    \/ Interrupt
    \/ \E p \in PeriodSet : Corrupt(p)
    \/ IncNoFiles
    \/ IncNoNewData
    \/ IncStart
    \/ \E s \in Stocks : IncWorkerDone(s)
    \/ \E s \in Stocks : IncWorkerRaises(s)
    \/ IncAppend
    \/ IncAppendRaises
    \/ IncNextPeriod

SpecUpdate == UpdateInit /\ [][UpdateNext]_vars


(***************************************************************************)
(* Full-run specification: one run of the full script on a price file with *)
(* any two series.                                                         *)
(***************************************************************************)
FullInit ==
    /\ prices \in [Stocks -> UpdateSeries]
    /\ files = [p \in PeriodSet |-> NoFile]
    /\ pc = "idle"
    /\ period_i = 0
    /\ pending = {}
    /\ all_results = <<>>
    /\ full_results = [p \in PeriodSet |-> <<>>]
    /\ min_analyze_date = None
    /\ runs = MaxRuns - 1
    /\ hist = <<"none", 0>>

FullNext ==
    \/ FullStart
    \/ \E s \in Stocks : FullWorkerDone(s)
    \/ FullPeriodDone
    \/ FullSave

SpecFull == FullInit /\ [][FullNext]_vars

(***************************************************************************)
(* Write specification: the three places that write a result file          *)
(* (to_parquet of the full run, of append_results for a new file, of        *)
(* append_results after the merge), on the output of the worker for a      *)
(* price file in which one observation may be listed twice (the scripts    *)
(* load the price file as it is).                                          *)
(***************************************************************************)
\* the series with its row k listed twice
Twice(series, k) ==
    [i \in 1..(Len(series) + 1) |-> IF i <= k THEN series[i] ELSE series[i - 1]]

WriteSeries ==
    LET base == {SeriesOf(f) :
                    f \in UNION {[D -> 1..MaxLow] : D \in SUBSET (1..WriteMaxDate)}}
    IN  base \cup UNION {{Twice(s, k) : k \in 1..Len(s)} : s \in base}

WriteInit ==
    /\ prices \in {[s \in Stocks |-> IF s = EvalStock THEN series ELSE <<>>] :
                      series \in WriteSeries}
    /\ files = [p \in PeriodSet |-> NoFile]
    /\ pc = "write_ready"
    /\ period_i = 0
    /\ pending = {}
    /\ all_results = <<>>
    /\ full_results = [p \in PeriodSet |-> <<>>]
    /\ min_analyze_date = None
    /\ runs = 0
    /\ hist = <<"none", 0>>

\* full run: analysis of every window, then the "Save results" loop
WriteFullSave ==
    /\ pc = "write_ready"
    /\ files' = [p \in PeriodSet |-> File(FullRunRows(prices, p))]
    /\ pc' = "write_saved"
    /\ UNCHANGED <<prices, period_i, pending, all_results, full_results,
                   min_analyze_date, runs, hist>>

\* incremental run of one window whose file does not exist: append_results
\* creates it
WriteCreate(i, cutoff) ==
    /\ pc = "write_ready"
    /\ period_i' = i
    /\ min_analyze_date' = Some(cutoff)
    /\ all_results' = incremental_worker_result(prices, EvalStock,
            ModelPeriods[i], cutoff)
    /\ files' = [files EXCEPT ![ModelPeriods[i]] = append_results(all_results', @)]
    /\ pc' = "write_created"
    /\ UNCHANGED <<prices, pending, full_results, runs, hist>>

\* incremental run of one window whose file exists: append_results merges
WriteMerge(i, cutoff) ==
    /\ pc = "write_saved"
    /\ period_i' = i
    /\ min_analyze_date' = Some(cutoff)
    /\ all_results' = incremental_worker_result(prices, EvalStock,
            ModelPeriods[i], cutoff)
    /\ files' = [files EXCEPT ![ModelPeriods[i]] = append_results(all_results', @)]
    /\ pc' = "write_merged"
    /\ UNCHANGED <<prices, pending, full_results, runs, hist>>

WriteNext ==
    \/ WriteFullSave
    \/ \E i \in 1..Len(ModelPeriods), cutoff \in 0..WriteMaxDate : WriteCreate(i, cutoff)
    \/ \E i \in 1..Len(ModelPeriods), cutoff \in 0..WriteMaxDate : WriteMerge(i, cutoff)

SpecWrite == WriteInit /\ [][WriteNext]_vars

(***************************************************************************)
(* Configuration specification: one worker call with the configuration of  *)
(* the source (LOW_PERIODS, WAIT_TIMES, EXPIRY_PERIODS, MAX_WAIT_BY_PERIOD) *)
(* on a series that has just enough history for one window: period_days    *)
(* daily observations at the low ConfigHeadLow, then up to ConfigExtra      *)
(* observations every `stride` days with lows below, at and above it.       *)
(***************************************************************************)
ConfigHeadLow == 2
ConfigLows == {1, 2, 3}
ConfigStrides == {1, 7, 30}

ConfigSeries(period_days, stride, tail) ==
    [i \in 1..(period_days + Len(tail)) |->
        IF i <= period_days
        THEN [Date |-> i, Low |-> ConfigHeadLow]
        ELSE [Date |-> period_days + (i - period_days) * stride,
              Low |-> tail[i - period_days]]]

ConfigTails == UNION {[1..n -> ConfigLows] : n \in 0..ConfigExtra}

\* [w for w in WAIT_TIMES if w <= MAX_WAIT_BY_PERIOD[period_days]]
ConfigValidWaits(period_days) ==
    valid_wait_times(WAIT_TIMES, MAX_WAIT_BY_PERIOD[period_days])

ConfigInit ==
    /\ period_i \in 1..Len(LOW_PERIODS)
    /\ prices \in {[s \in Stocks |-> IF s = EvalStock
                                     THEN ConfigSeries(LOW_PERIODS[period_i], stride, tail)
                                     ELSE <<>>] :
                      stride \in ConfigStrides, tail \in ConfigTails}
    /\ files = [p \in PeriodSet |-> NoFile]
    /\ pc = "config_ready"
    /\ pending = {}
    /\ all_results = <<>>
    /\ full_results = [p \in PeriodSet |-> <<>>]
    /\ min_analyze_date = None
    /\ runs = 0
    /\ hist = <<"none", 0>>

\* analyze_stock_for_period((stock, stock_data, period_days, name, valid_wait_times))
ConfigFull ==
    /\ pc = "config_ready"
    /\ all_results' = analyze_stock_for_period(EvalStock, prices[EvalStock],
            LOW_PERIODS[period_i], ConfigValidWaits(LOW_PERIODS[period_i]),
            EXPIRY_PERIODS)
    /\ pc' = "config_done"
    /\ UNCHANGED <<prices, files, period_i, pending, full_results,
                   min_analyze_date, runs, hist>>

\* analyze_stock_for_period_incremental((..., valid_wait_times, min_analyze_date))
\* with the first day of sufficient history as the cutoff
ConfigIncremental ==
    /\ pc = "config_ready"
    /\ min_analyze_date' = Some(LOW_PERIODS[period_i])
    /\ all_results' = analyze_stock_for_period_incremental(EvalStock,
            prices[EvalStock], LOW_PERIODS[period_i],
            ConfigValidWaits(LOW_PERIODS[period_i]), EXPIRY_PERIODS,
            LOW_PERIODS[period_i])
    /\ pc' = "config_done"
    /\ UNCHANGED <<prices, files, period_i, pending, full_results, runs, hist>>

ConfigNext ==
    \/ ConfigFull
    \/ ConfigIncremental

SpecConfig == ConfigInit /\ [][ConfigNext]_vars


(***************************************************************************)
(* Scenario specification: the 1-Month window of the real configuration on *)
(* a series of 400 consecutive daily observations whose low is 100 except  *)
(* for a 10-day dip to 90.                                                 *)
(***************************************************************************)
ScenarioDays == 400
ScenarioLow == 100
ScenarioDipLow == 90
ScenarioDipDays == 10
ScenarioDip == 350
ScenarioEvent == 340
ScenarioPeriod == 1   \* index of the 30-day window in LOW_PERIODS

ScenarioSeries(dip) ==
    [i \in 1..ScenarioDays |->
        [Date |-> i,
         Low  |-> IF i >= dip /\ i < dip + ScenarioDipDays
                  THEN ScenarioDipLow ELSE ScenarioLow]]

ScenarioInit ==
    /\ period_i = ScenarioPeriod
    /\ prices \in {[s \in Stocks |-> IF s = EvalStock THEN ScenarioSeries(dip)
                                     ELSE <<>>] :
                      dip \in (ScenarioDip - ScenarioSpread)..(ScenarioDip + ScenarioSpread)}
    /\ files = [p \in PeriodSet |-> NoFile]
    /\ pc = "scenario_ready"
    /\ pending = {}
    /\ all_results = <<>>
    /\ full_results = [p \in PeriodSet |-> <<>>]
    /\ min_analyze_date = None
    /\ runs = 0
    /\ hist = <<"none", 0>>

\* analyze_stock_for_period_incremental((..., valid_wait_times, min_analyze_date))
ScenarioIncremental(cutoff) ==
    /\ pc = "scenario_ready"
    /\ min_analyze_date' = Some(cutoff)
    /\ all_results' = analyze_stock_for_period_incremental(EvalStock,
            prices[EvalStock], LOW_PERIODS[period_i],
            ConfigValidWaits(LOW_PERIODS[period_i]), EXPIRY_PERIODS, cutoff)
    /\ pc' = "scenario_done"
    /\ UNCHANGED <<prices, files, period_i, pending, full_results, runs, hist>>

ScenarioNext ==
    \E cutoff \in (ScenarioEvent - ScenarioSpread)..(ScenarioEvent - 1) :
        ScenarioIncremental(cutoff)

SpecScenario == ScenarioInit /\ [][ScenarioNext]_vars

(***************************************************************************)
(* Properties.                                                             *)
(***************************************************************************)
\* the trials a full run over the price file df persists for one period
FullRunTrials(df, period_days) ==
    UNION {Range(analyze_stock_for_period(s, df[s], period_days,
                    ModelValidWaits(period_days), ModelExpiryPeriods)) :
           s \in StocksOf(df)}

\* no two rows with the same key: as many keys as rows
KeyUnique(rows) ==
    Cardinality({Key(rows[i]) : i \in 1..Len(rows)}) = Len(rows)

\* C1 (as claimed): after a full run on the historical tranche, the arrival
\* of the new tranche and one incremental run, every period's file holds
\* exactly the trials of a full run over the whole price series.
C1_IncrementalEqualsFull ==
    (pc = "idle" /\ hist[1] = "full_new_inc")
    => \A p \in PeriodSet :
          /\ Range(files[p].rows) = FullRunTrials(prices, p)
          /\ KeyUnique(files[p].rows)

\* C2: in every state, whatever runs were made, no two rows of a period's
\* result file have the same (stock, support_date, wait_days, expiry_days).
C2_UniqueKeys ==
    \A p \in PeriodSet : KeyUnique(files[p].rows)

\* an incremental run has just merged rows whose keys were all in the file:
\* no price arrived since the last run, which generated each of them already
C2_Witness ==
    /\ pc = "inc_appended"
    /\ Len(all_results) > 0
    /\ hist[1] \in {"full", "inc", "full_new_inc"}
    /\ Len(files[ModelPeriods[period_i]].rows) > Len(all_results)

C4_MergeIdempotent ==
    pc = "eval_merged"
    => LET merged == files[ModelPeriods[period_i]].rows
       IN  /\ KeyUnique(all_results)
           /\ Range(merged) = Range(all_results)
           /\ Len(merged) = Len(all_results)

\* a result with several trials, of several expiries, has been merged
C4_Witness ==
    /\ pc = "eval_merged"
    /\ Len(all_results) >= 4
    /\ \E i, j \in 1..Len(all_results) :
          /\ all_results[i].expiry_days # all_results[j].expiry_days
          /\ KeyWithoutExpiry(all_results[i]) = KeyWithoutExpiry(all_results[j])

(***************************************************************************)
(* Properties of one worker call (evaluator specification).                *)
(***************************************************************************)
EvalData == prices[EvalStock]
EvalPeriod == ModelPeriods[period_i]
Evaluated == pc \in {"eval_done", "eval_merged"}
Trials == Range(all_results)

\* lows of the observations dated in (lo, hi]
LowsIn(lo, hi) == {r.Low : r \in {q \in Range(EvalData) : q.Date > lo /\ q.Date <= hi}}

\* C5 (as claimed): the support level of every emitted trial is the minimum
\* low over the calendar days [support_date - period_days, support_date].
C5_SupportIsCalendarMin ==
    Evaluated
    => \A t \in Trials :
          calculate_rolling_low(EvalData, t.support_date, t.period_days)
              = Some(t.support_level)

\* C6 (as claimed): in a full evaluation a date of the series has trials
\* exactly when the series starts at least period_days calendar days before.
C6_EventIffCalendarHistory ==
    (pc = "eval_done" /\ min_analyze_date = None)
    => \A i \in 1..Len(EvalData) :
          (\E t \in Trials : t.support_date = EvalData[i].Date)
          <=> (EvalData[i].Date - EvalData[1].Date >= EvalPeriod)

\* C7: no emitted trial has an observation with a low below its support
\* level dated after its support date and up to support date + wait days.
C7_WaitBreakSkip ==
    Evaluated
    => \A t \in Trials :
          \A low \in LowsIn(t.support_date, t.support_date + t.wait_days) :
              low >= t.support_level

\* a support date has its wait-0 trials, and a longer wait whose window
\* holds a low below the support level has no trial
C7_Witness ==
    /\ pc = "eval_done"
    /\ \E t \in Trials, w \in Range(ModelValidWaits(EvalPeriod)) :
          /\ t.wait_days = 0
          /\ \E low \in LowsIn(t.support_date, t.support_date + w) :
                low < t.support_level
          /\ ~\E u \in Trials : u.support_date = t.support_date /\ u.wait_days = w

C9_UndeterminedIffEmptyWindow ==
    Evaluated
    => \A t \in Trials :
          /\ t.success = "None" <=> LowsIn(t.test_date, t.expiry_date) = {}
          /\ t.success = "None" => t.days_to_break = None /\ t.break_pct = None
          /\ \A e \in Range(ModelExpiryPeriods) :
                \E u \in Trials : /\ u.support_date = t.support_date
                                  /\ u.wait_days = t.wait_days
                                  /\ u.expiry_days = e

\* the same (support date, wait) has an undetermined and a determined trial
C9_Witness ==
    /\ pc = "eval_done"
    /\ \E t, u \in Trials :
          /\ t.support_date = u.support_date /\ t.wait_days = u.wait_days
          /\ t.success = "None" /\ LowsIn(t.test_date, t.expiry_date) = {}
          /\ u.success # "None"

\* the first observation of (test_date, expiry_date] below the support level
FirstBreak(t) ==
    CHOOSE r \in Range(EvalData) :
        /\ r.Date > t.test_date /\ r.Date <= t.expiry_date
        /\ r.Low < t.support_level
        /\ \A q \in Range(EvalData) :
              (q.Date > t.test_date /\ q.Date <= t.expiry_date
               /\ q.Low < t.support_level) => r.Date <= q.Date

\* C10 (as claimed): a failure records the first observation below the
\* support level, and break_pct is (low - support) / support, a negative
\* fraction.
C10_BreakPctIsFraction ==
    Evaluated
    => \A t \in Trials :
          t.success = "False" =>
            /\ t.days_to_break = Some(FirstBreak(t).Date - t.test_date)
            /\ t.break_pct # None
            /\ t.break_pct[1] * t.support_level
                  = (FirstBreak(t).Low - t.support_level) * t.break_pct[2]
            /\ t.break_pct[1] * t.break_pct[2] < 0

(***************************************************************************)
(* Properties of one worker call with the configuration of the source      *)
(* (configuration specification).                                          *)
(***************************************************************************)
ConfigDone == pc = "config_done"
ConfigPeriod == LOW_PERIODS[period_i]

\* C11: every trial of a window has wait_days in the window's valid set,
\* which is {0, 30} for 30, {0, 30, 60, 90} for 90 and
\* {0, 30, 60, 90, 120, 180} for 180, 270 and 365; the valid set of a window
\* is what the worker receives.
C11_ValidWaits ==
    LET table == [p \in {30, 90, 180, 270, 365} |->
                    IF p = 30 THEN {0, 30}
                    ELSE IF p = 90 THEN {0, 30, 60, 90}
                    ELSE {0, 30, 60, 90, 120, 180}]
    IN  /\ Range(ConfigValidWaits(ConfigPeriod)) = table[ConfigPeriod]
        /\ ConfigDone => \A t \in Trials :
                            /\ t.period_days = ConfigPeriod
                            /\ t.wait_days \in table[t.period_days]
                            /\ t.wait_days <= 180

\* the 365-day window has trials at the longest wait 180, the 30-day window
\* at its longest wait 30
C11_Witness ==
    /\ ConfigDone
    /\ \/ ConfigPeriod = 365 /\ \E t \in Trials : t.wait_days = 180
       \/ ConfigPeriod = 30 /\ \E t \in Trials : t.wait_days = 30
    /\ \E r \in Range(EvalData) : r.Date > ConfigPeriod

\* C12: for every support date of the output and every valid wait whose
\* wait window has no low below the support level, there is exactly one
\* trial per expiry in {7, 14, 21, 30, 45}, five in all, each with
\* test_date = support_date + wait_days, expiry_date = test_date + expiry_days.
C12_FiveTrialsPerWait ==
    ConfigDone
    => \A i \in 1..Len(all_results) :
          LET t == all_results[i]
              d == t.support_date
          IN  \A w \in Range(ConfigValidWaits(ConfigPeriod)) :
                (\A low \in LowsIn(d, d + w) : low >= t.support_level)
                => LET same == {j \in 1..Len(all_results) :
                                  /\ all_results[j].support_date = d
                                  /\ all_results[j].wait_days = w}
                   IN  /\ Cardinality(same) = 5
                       /\ \A e \in {7, 14, 21, 30, 45} :
                            \E j \in same :
                               /\ all_results[j].expiry_days = e
                               /\ all_results[j].test_date = d + w
                               /\ all_results[j].expiry_date = d + w + e
                               /\ all_results[j].support_level = t.support_level

\* a support date with an unbroken wait of 30 days whose window holds an
\* observation, and a support date with a broken one
C12_Witness ==
    /\ ConfigDone
    /\ \E t \in Trials :
          /\ t.wait_days = 30
          /\ LowsIn(t.support_date, t.support_date + 30) # {}
    /\ \E t \in Trials :
          \E low \in LowsIn(t.support_date, t.support_date + 30) :
              low < t.support_level

(***************************************************************************)
(* Properties of the incremental run (system specification).               *)
(***************************************************************************)
\* the window of the period loop's current pass
CurrentPeriod == ModelPeriods[period_i]

\* the maximum support date of the trials persisted for a window
Watermark(p) == Max({files[p].rows[i].support_date : i \in 1..Len(files[p].rows)})

\* the windows whose persisted result set has a watermark
WithWatermark == {p \in PeriodSet : files[p].exists /\ Len(files[p].rows) > 0}

C14_LastWriteWins ==
    [][(pc = "inc_analyze" /\ pc' = "inc_appended" /\ files[CurrentPeriod].exists)
       => LET old == files[CurrentPeriod].rows
              out == files'[CurrentPeriod].rows
          IN  /\ \A t \in Range(all_results) :
                    (\E e \in Range(old) : Key(e) = Key(t))
                    => /\ Cardinality({i \in 1..Len(out) : Key(out[i]) = Key(t)}) = 1
                       /\ t \in Range(out)
              /\ \A e \in Range(old) :
                    (\A t \in Range(all_results) : Key(t) # Key(e))
                    => e \in Range(out)]_vars

\* a trial of the full run was generated again with other field values and
\* the file holds the new one, next to rows that were not generated again
C14_Witness ==
    /\ pc = "inc_appended"
    /\ hist[1] = "new"
    /\ \E t \in Range(all_results) :
          /\ t \in Range(files[CurrentPeriod].rows)
          /\ \E e \in Range(FullRunRows(Prefix(prices, hist[2]), CurrentPeriod)) :
                Key(e) = Key(t) /\ e # t
    /\ \E e \in Range(files[CurrentPeriod].rows) :
          \A t \in Range(all_results) : Key(t) # Key(e)

\* C15 (as claimed): an incremental run that starts when a window has no
\* result file ends with that window's file holding the trials of a full run
\* over the whole price file.
C15_NoFileMeansFullRun ==
    [][(runs' = runs + 1 /\ pc \in {"idle", "inc_appended"})
       => \A p \in PeriodSet :
             (IF pc = "idle" THEN ~files[p].exists ELSE ~files'[p].exists)
             => /\ files'[p].exists
                /\ Range(files'[p].rows) = FullRunTrials(prices, p)]_vars

\* C16 (as claimed): with an unreadable result file the incremental run is
\* not ended by append_results raising, and when main() has returned no
\* result file is unreadable any more (the window was written again).
C16_UnreadableFileReprocessed ==
    /\ pc # "append_raised"
    /\ (pc = "idle" /\ hist[1] = "inc") => \A p \in PeriodSet : files[p].readable

\* C17 (as claimed): a worker that raises does not end the run.
C17_WorkerFailureSkipped == pc # "worker_raised"

(***************************************************************************)
(* Properties of the writes (write specification).                         *)
(***************************************************************************)
\* C18 (as claimed): whichever write produced a result file (the full run's
\* save, append_results creating the file, append_results merging into it),
\* the file has one row per key, whatever the rows handed to the write.
C18_EveryWriteDeduplicates ==
    pc \in {"write_saved", "write_created", "write_merged"}
    => \A p \in PeriodSet : files[p].exists => KeyUnique(files[p].rows)

(***************************************************************************)
(* Properties of the scheduling (system specification).                    *)
(***************************************************************************)
\* C19: a step that changes a result file is a step of the main process
\* (append_results of the incremental run, the save loop of the full run)
\* taken when no worker task of the window is still running; the completion
\* of a worker task changes no result file.
C19_WriteAfterWorkers ==
    [][files' # files
       => /\ pending = {} /\ pending' = {}
          /\ \/ pc = "inc_analyze" /\ pc' = "inc_appended"
             \/ pc = "full_save" /\ pc' = "idle"]_vars

\* append_results has written the trials that the workers of both stocks
\* returned
C19_Witness ==
    /\ pc = "inc_appended"
    /\ pending = {}
    /\ \E t, u \in Range(all_results) :
          /\ t.stock = "A" /\ u.stock = "B"
          /\ {t, u} \subseteq Range(files[CurrentPeriod].rows)

\* what the incremental worker of stock s returns in the current pass
WorkerResult(s) ==
    Range(analyze_stock_for_period_incremental(s, prices[s], CurrentPeriod,
              ModelValidWaits(CurrentPeriod), ModelExpiryPeriods,
              min_analyze_date[1]))

\* C20: whatever the completion order of the worker tasks, the trials
\* collected for a window are the union of what the completed workers
\* returned, and the set persisted by append_results is determined by the
\* set collected and the set persisted before: the new trials, and the old
\* ones whose key is not among the new.
C20_OrderIrrelevant ==
    [][/\ pc = "inc_analyze"
          => Range(all_results) =
                UNION {WorkerResult(s) : s \in StocksOf(prices) \ pending}
       /\ (pc = "inc_analyze" /\ pc' = "inc_appended")
          => Range(files'[CurrentPeriod].rows) =
                IF all_results = <<>>
                THEN Range(files[CurrentPeriod].rows)
                ELSE Range(all_results) \cup
                     {e \in Range(files[CurrentPeriod].rows) :
                         \A t \in Range(all_results) : Key(t) # Key(e)}]_vars

\* the worker of B completed before the worker of A, both returned trials,
\* and the window was merged into a file that had rows
C20_Witness ==
    /\ pc = "inc_appended"
    /\ all_results # <<>>
    /\ all_results[1].stock = "B"
    /\ \E i \in 1..Len(all_results) : all_results[i].stock = "A"
    /\ Len(files[CurrentPeriod].rows) > Len(all_results)

(***************************************************************************)
(* Properties of the full run's workers (full-run specification).          *)
(***************************************************************************)

\* C21: in a full run the trials collected for a stock are what its worker
\* returns, and the worker returns the same trials when the price series of
\* any other stock is replaced by another one.
C21_OwnSeriesOnly ==
    pc = "full_analyze"
    => \A s \in StocksOf(prices) \ pending :
          /\ {t \in Range(all_results) : t.stock = s}
                = Range(full_worker_result(prices, s, CurrentPeriod))
          /\ \A o \in Stocks \ {s}, alt \in UpdateSeries :
                full_worker_result([prices EXCEPT ![o] = alt], s, CurrentPeriod)
                   = full_worker_result(prices, s, CurrentPeriod)

\* both workers of a full run's window have returned trials, for two stocks
\* with different price series
C21_Witness ==
    /\ pc = "full_analyze"
    /\ pending = {}
    /\ prices["A"] # prices["B"]
    /\ \E t, u \in Range(all_results) : t.stock = "A" /\ u.stock = "B"


(***************************************************************************)
(* Properties of the success matrix (evaluator specification).             *)
(***************************************************************************)
MatrixBuilt == pc = "eval_matrix"
Matrix == full_results[EvalPeriod].matrix

\* number of rows of the detailed results in cell c with outcome o
CellCount(c, o) ==
    Cardinality({i \in 1..Len(all_results) :
                    /\ all_results[i].wait_days = c[1]
                    /\ all_results[i].expiry_days = c[2]
                    /\ all_results[i].success = o})

\* C22 (as stated): the rate of a cell is exactly the ratio of its Success
\* trials to its Success plus Failure trials, its count is that denominator,
\* and a cell with only Undetermined trials has a null rate and count 0.
C22_ExactRatio ==
    MatrixBuilt =>
        \A c \in DOMAIN Matrix :
            LET S == CellCount(c, "True")
                F == CellCount(c, "False")
            IN  /\ Matrix[c].count = S + F
                /\ S + F = 0 => Matrix[c].rate = None
                /\ S + F > 0 => /\ Matrix[c].rate # None
                                /\ Matrix[c].rate[1] * (S + F) = 1000 * S

\* C22 (amended): the rate of a cell is the percentage of Success trials
\* among its Success plus Failure trials rounded to one decimal, its count is
\* that denominator, and a cell with only Undetermined trials has a null rate
\* and count 0.
C22_RoundedPercentage ==
    MatrixBuilt =>
        /\ DOMAIN Matrix = {t.wait_days : t \in Trials} \X {t.expiry_days : t \in Trials}
        /\ \A c \in DOMAIN Matrix :
            LET S == CellCount(c, "True")
                F == CellCount(c, "False")
                d == Matrix[c].rate[1] * (S + F) - 1000 * S
            IN  /\ Matrix[c].count = S + F
                /\ S + F = 0 => Matrix[c].rate = None
                /\ S + F > 0 => /\ Matrix[c].rate # None
                                /\ 2 * d <= S + F
                                /\ -2 * d <= S + F

\* a matrix with a cell of Success, Failure and Undetermined trials and a cell
\* of Undetermined trials only
C22_Witness ==
    /\ MatrixBuilt
    /\ \E c \in DOMAIN Matrix :
          /\ CellCount(c, "True") > 0
          /\ CellCount(c, "False") > 0
          /\ CellCount(c, "None") > 0
    /\ \E c \in DOMAIN Matrix :
          /\ CellCount(c, "None") > 0
          /\ Matrix[c].count = 0


(***************************************************************************)
(* Properties of the example scenario (scenario specification).            *)
(***************************************************************************)
\* the dip of the series starts at day d
DipStartsAt(d) ==
    /\ EvalData[d].Low = ScenarioDipLow
    /\ EvalData[d - 1].Low = ScenarioLow

ScenarioTrials ==
    {t \in Trials : /\ t.support_date = ScenarioEvent
                    /\ t.wait_days = 0
                    /\ t.expiry_days = 30}

SupportLevels(rows) == {<<t.support_date, t.support_level>> : t \in Range(rows)}

\* C24: the support dates and support levels of the trials of an incremental
\* call are those a full run over the entire series computes for the support
\* dates after the cutoff: the rolling minimum reaches back past the cutoff.
C24_SupportLevelFromFullHistory ==
    (pc = "eval_done" /\ min_analyze_date # None) =>
        SupportLevels(all_results)
          = {e \in SupportLevels(full_worker_result(prices, EvalStock, EvalPeriod)) :
                e[1] > min_analyze_date[1]}

\* an incremental call returned a trial whose support level is the low of an
\* observation at or before the cutoff, below every later low of its window
C24_Witness ==
    /\ pc = "eval_done"
    /\ min_analyze_date # None
    /\ \E t \in Trials :
          /\ \E r \in Range(EvalData) :
                r.Date <= min_analyze_date[1] /\ r.Low = t.support_level
          /\ \A r \in Range(EvalData) :
                (r.Date > min_analyze_date[1] /\ r.Date <= t.support_date)
                    => r.Low > t.support_level


\* C25: every Failure trial has a break day, and the break day lies after the
\* test date and not after the expiry date (the fallback without a break day
\* is never taken).
C25_FailureHasBreakDay ==
    Evaluated =>
        \A t \in Trials :
            t.success = "False" =>
                /\ t.days_to_break # None
                /\ t.days_to_break[1] >= 1
                /\ t.days_to_break[1] <= t.expiry_days
                /\ t.break_pct # None
                /\ \E r \in Range(EvalData) :
                      /\ r.Date = t.test_date + t.days_to_break[1]
                      /\ r.Low < t.support_level

\* a Failure that breaks on the first day after the test date and a Failure
\* that breaks on the expiry date of an expiry of more than one day
C25_Witness ==
    /\ Evaluated
    /\ \E t \in Trials : t.success = "False" /\ t.days_to_break = Some(1)
    /\ \E t \in Trials :
          /\ t.success = "False"
          /\ t.expiry_days > 1
          /\ t.days_to_break = Some(t.expiry_days)


(***************************************************************************)
(* Coverage of the persisted results after an incremental run (system      *)
(* specification).                                                         *)
(***************************************************************************)
\* an incremental run has returned normally and the price file is unchanged
\* since
IncrementalCompleted == pc = "idle" /\ hist[1] \in {"inc", "full_new_inc"}

\* C26: after an incremental run, for every window, stock and row of the
\* stock's series with a full window of rows, the window's file holds the
\* trials with wait 0 of that stock and date.
C26_EveryQualifyingDateCovered ==
    IncrementalCompleted =>
        \A p \in PeriodSet, s \in Stocks :
            \A idx \in p..Len(prices[s]) :
                \E t \in Range(files[p].rows) :
                    /\ t.stock = s
                    /\ t.support_date = prices[s][idx].Date
                    /\ t.wait_days = 0


(***************************************************************************)
(* Interrupted incremental runs (update specification).                    *)
(***************************************************************************)
\* the result files before the interrupted run: a full run on the price file
\* as it was up to day hist[2]
FilesBefore == [p \in PeriodSet |-> File(FullRunRows(Prefix(prices, hist[2]), p))]

\* the result files after one incremental run on df that starts from the
\* files fs and returns normally
main_uninterrupted(fs, df) ==
    LET known == {q \in PeriodSet : get_last_analysis_date(fs[q]) # None}
        start_date == Min({get_last_analysis_date(fs[q])[1] : q \in known})
    IN  IF df_new(df, start_date) = {} THEN fs
        ELSE [p \in PeriodSet |->
                append_results(
                    Flatten([k \in 1..2 |->
                        LET s == <<"A", "B">>[k]
                        IN  IF s \in StocksOf(df)
                            THEN incremental_worker_result(df, s, p, start_date)
                            ELSE <<>>]),
                    fs[p])]

\* C27: when an incremental run was interrupted after some windows were
\* written and before the others were, a second incremental run on the same
\* price file ends with every window holding the trials that one
\* uninterrupted run would have persisted.
C27_RerunCompletesInterruptedRun ==
    (pc = "idle" /\ hist[1] = "rerun") =>
        \A p \in PeriodSet :
            Range(files[p].rows) = Range(main_uninterrupted(FilesBefore, prices)[p].rows)


\* C28: an incremental run changes a result file only in its append step, and
\* the append step keeps every trial of a key-unique file whose support date
\* is at or before the cutoff, with its field values and as the only row of
\* its key.
C28_OldTrialsUntouched ==
    [][(pc \in {"inc_analyze", "inc_appended"})
       => LET old == files[CurrentPeriod].rows
              out == files'[CurrentPeriod].rows
          IN  /\ \A p \in PeriodSet \ {CurrentPeriod} : files'[p] = files[p]
              /\ (~(pc = "inc_analyze" /\ pc' = "inc_appended"))
                    => (files'[CurrentPeriod] = files[CurrentPeriod])
              /\ KeyUnique(old)
                    => (\A e \in Range(old) :
                          (e.support_date <= min_analyze_date[1])
                          => /\ e \in Range(out)
                             /\ Cardinality({i \in 1..Len(out) : Key(out[i]) = Key(e)}) = 1)]_vars

\* after the append step the file still holds an Undetermined trial from
\* before the cutoff that a full run on the current prices would determine
C28_Witness ==
    /\ pc = "inc_appended"
    /\ Len(all_results) > 0
    /\ \E e \in Range(files[CurrentPeriod].rows) :
          /\ e.support_date <= min_analyze_date[1]
          /\ e.success = "None"
          /\ \E u \in Range(FullRunRows(prices, CurrentPeriod)) :
                Key(u) = Key(e) /\ u.success # "None"


\* the support dates the evaluated call generates trials for: the rows with a
\* full window of rows, after the cutoff in an incremental call
SupportDates ==
    {EvalData[idx].Date : idx \in {i \in EvalPeriod..Len(EvalData) :
        min_analyze_date = None \/ EvalData[i].Date > min_analyze_date[1]}}

\* the wait values for which trials of support date d were emitted
WaitsOf(d) == {t.wait_days : t \in {u \in Trials : u.support_date = d}}

\* C29: for every support date the wait values with trials are valid wait
\* values of the window, wait 0 is one of them, and with a wait value every
\* smaller valid wait value has trials too.
C29_WaitsFormPrefix ==
    Evaluated =>
        \A d \in SupportDates :
            /\ WaitsOf(d) \subseteq Range(ModelValidWaits(EvalPeriod))
            /\ 0 \in WaitsOf(d)
            /\ \A w \in WaitsOf(d), v \in Range(ModelValidWaits(EvalPeriod)) :
                  v < w => v \in WaitsOf(d)

\* a support date of the 2-day window with trials for the first two of its
\* three valid wait values only
C29_Witness ==
    /\ Evaluated
    /\ Len(ModelValidWaits(EvalPeriod)) = 3
    /\ \E d \in SupportDates :
          WaitsOf(d) = {ModelValidWaits(EvalPeriod)[1], ModelValidWaits(EvalPeriod)[2]}


\* C30: when a trial is a Failure, every trial of the same stock, support
\* date and wait with a larger expiry is a Failure with the same break day
\* and the same break_pct.
C30_FailureMonotoneInExpiry ==
    Evaluated =>
        \A t, u \in Trials :
            (/\ t.success = "False"
             /\ u.stock = t.stock
             /\ u.support_date = t.support_date
             /\ u.wait_days = t.wait_days
             /\ u.expiry_days > t.expiry_days)
            => /\ u.success = "False"
               /\ u.days_to_break = t.days_to_break
               /\ u.break_pct = t.break_pct

\* a Failure whose trial with a larger expiry has a second observation below
\* the support level, dated after the first trial's expiry date
C30_Witness ==
    /\ Evaluated
    /\ \E t, u \in Trials :
          /\ t.success = "False"
          /\ u.support_date = t.support_date
          /\ u.wait_days = t.wait_days
          /\ u.expiry_days > t.expiry_days
          /\ \E r \in Range(EvalData) :
                /\ r.Date > t.expiry_date
                /\ r.Date <= u.expiry_date
                /\ r.Low < u.support_level

====
